---- MODULE Spec2Model ----
(***************************************************************************)
(* State-machine model of the "Split Spaced Strings" editor extension:     *)
(* the string locator, the quote rules, the split/merge transformer, the   *)
(* cursor-word mapper, the tracked-string registry and the editor event    *)
(* handlers (toggle command, will-save, close, change, active editor).     *)
(*                                                                         *)
(* Text is modelled as sequences of one-character strings; a document is   *)
(* a sequence of lines.  Positions are 0-based as in the source, and the   *)
(* accessors below translate to the 1-based sequences of TLA+.             *)
(***************************************************************************)
EXTENDS Integers, Sequences, FiniteSets, TLC

\* ------------------------------------------------------------------ chars
DQ == "\""
SQ == "'"
\* the backtick (SANY cannot lex it inside a string, so "~" stands for it)
BT == "~"
BS == "\\"
NL == "\n"
SP == " "

Min(a, b) == IF a <= b THEN a ELSE b
Max(a, b) == IF a >= b THEN a ELSE b

\* `const name = value; body`: the value is bound once
With(value, body(_)) == body(value)

\* least / greatest element of a non-empty set of integers
minOf(S) == CHOOSE i \in S : \A j \in S : i <= j
maxOf(S) == CHOOSE i \in S : \A j \in S : i >= j

\* /\s/ on the characters the model uses
isWhitespace(c) == c \in {" ", "\t", "\n"}

\* /[a-zA-Z_]/ on the characters the model uses
isIdentStart(c) == c \in {"a", "b", "c", "v", "l", "r", "x", "y", "_"}

\* ------------------------------------------------ JavaScript string methods
\* String.prototype.substring(a, b): arguments clamped to [0, length] and
\* swapped when a > b.
substring(s, a, b) ==
  LET a0 == Max(0, Min(a, Len(s)))
      b0 == Max(0, Min(b, Len(s)))
  IN SubSeq(s, Min(a0, b0) + 1, Max(a0, b0))

substringFrom(s, a) == substring(s, a, Len(s))

\* String.prototype.startsWith(token, index)
startsWith(text, token, index) ==
  LET p == Max(0, Min(index, Len(text)))
  IN /\ p + Len(token) <= Len(text)
     /\ SubSeq(text, p + 1, p + Len(token)) = token

\* String.prototype.indexOf(token, from), -1 when absent
indexOf(text, token, from) ==
  With({i \in Max(0, from)..Len(text) : startsWith(text, token, i)},
       LAMBDA hits : IF hits = {} THEN -1 ELSE minOf(hits))

\* String.prototype.lastIndexOf(char), -1 when absent
lastIndexOf(text, c) ==
  With({i \in 0..(Len(text) - 1) : text[i + 1] = c},
       LAMBDA hits : IF hits = {} THEN -1 ELSE maxOf(hits))

includes(text, c) == \E i \in 1..Len(text) : text[i] = c

RECURSIVE trimStart(_)
trimStart(s) ==
  IF s # <<>> /\ isWhitespace(Head(s)) THEN trimStart(Tail(s)) ELSE s

RECURSIVE trimEnd(_)
trimEnd(s) ==
  IF s # <<>> /\ isWhitespace(s[Len(s)])
  THEN trimEnd(SubSeq(s, 1, Len(s) - 1)) ELSE s

trim(s) == trimEnd(trimStart(s))

\* index of the first character at or after `from` that is / is not whitespace,
\* Len(s) when there is none
firstWs(s, from) ==
  With({i \in from..(Len(s) - 1) : isWhitespace(s[i + 1])},
       LAMBDA hits : IF hits = {} THEN Len(s) ELSE minOf(hits))

firstNonWs(s, from) ==
  With({i \in from..(Len(s) - 1) : ~isWhitespace(s[i + 1])},
       LAMBDA hits : IF hits = {} THEN Len(s) ELSE minOf(hits))

\* s.split(/\s+/): "" gives [""], a leading or trailing run gives an empty
\* first or last piece
RECURSIVE splitWs(_)
splitWs(s) ==
  With(firstWs(s, 0),
       LAMBDA i : IF i = Len(s) THEN <<s>>
                  ELSE <<substring(s, 0, i)>> \o splitWs(substringFrom(s, firstNonWs(s, i))))

\* s.split('\n')
RECURSIVE splitNl(_)
splitNl(s) ==
  With(indexOf(s, <<NL>>, 0),
       LAMBDA i : IF i = -1 THEN <<s>>
                  ELSE <<substring(s, 0, i)>> \o splitNl(substringFrom(s, i + 1)))

\* pieces.join(sep)
RECURSIVE join(_, _)
join(pieces, sep) ==
  IF pieces = <<>> THEN <<>>
  ELSE IF Len(pieces) = 1 THEN pieces[1]
  ELSE pieces[1] \o sep \o join(Tail(pieces), sep)

\* s.replace(/\s+/g, ' ')
RECURSIVE collapseWs(_)
collapseWs(s) ==
  With(firstWs(s, 0),
       LAMBDA i : IF i = Len(s) THEN s
                  ELSE substring(s, 0, i) \o <<SP>>
                         \o collapseWs(substringFrom(s, firstNonWs(s, i))))

\* content.trim().replace(/\s+/g, ' ')
contentHash(content) == collapseWs(trim(content))

SelectSeqNonEmpty(pieces) == SelectSeq(pieces, LAMBDA p : Len(p) > 0)

\* ------------------------------------------------------------ quote tokens
Q3D == <<DQ, DQ, DQ>>
Q3S == <<SQ, SQ, SQ>>
QUOTE_TOKENS == <<Q3D, Q3S, <<BT>>, <<DQ>>, <<SQ>>>>

\* variant of isEscaped for which no token is escaped
isEscapedNever(text, index) == FALSE

\* an odd number of backslashes directly before text[index]
RECURSIVE backslashCount(_, _)
backslashCount(text, index) ==
  IF index - 1 >= 0 /\ index - 1 < Len(text) /\ text[index] = BS
  THEN 1 + backslashCount(text, index - 1) ELSE 0

isEscaped(text, index) == backslashCount(text, index) % 2 = 1

\* first token of `tokens` found at text[index], <<>> for null
matchQuoteToken(text, index, tokens) ==
  With({k \in 1..Len(tokens) : startsWith(text, tokens[k], index)},
       LAMBDA hits : IF hits = {} THEN <<>> ELSE tokens[minOf(hits)])

\* variant of findClosingQuoteInLine that takes the last token of the line
findClosingQuoteLast(lineText, startIndex, quote) ==
  With({i \in startIndex..(Len(lineText) - Len(quote)) : startsWith(lineText, quote, i)},
       LAMBDA hits : IF hits = {} THEN -1 ELSE maxOf(hits))

findClosingQuoteInLine(lineText, startIndex, quote) ==
  IF Len(quote) = 1
  THEN With({i \in startIndex..(Len(lineText) - 1) :
               lineText[i + 1] = quote[1] /\ ~isEscaped(lineText, i)},
            LAMBDA hits : IF hits = {} THEN -1 ELSE minOf(hits))
  ELSE indexOf(lineText, quote, startIndex)

\* re-resolve a quote token near its last known column (search outward, left
\* before right, then a full scan from the `direction` side); -1 when absent
isValidQuotePos(lineText, quote, pos) ==
  /\ pos >= 0
  /\ pos <= Len(lineText) - Len(quote)
  /\ startsWith(lineText, quote, pos)
  /\ ~(Len(quote) = 1 /\ isEscaped(lineText, pos))

findQuotePositionInLine(lineText, quote, expectedPos, direction) ==
  IF isValidQuotePos(lineText, quote, expectedPos) THEN expectedPos
  ELSE With({o \in 1..Max(expectedPos, Len(lineText) - expectedPos) :
               \/ isValidQuotePos(lineText, quote, expectedPos - o)
               \/ isValidQuotePos(lineText, quote, expectedPos + o)},
            LAMBDA offs :
              IF offs # {}
              THEN IF isValidQuotePos(lineText, quote, expectedPos - minOf(offs))
                   THEN expectedPos - minOf(offs) ELSE expectedPos + minOf(offs)
              ELSE With({i \in 0..(Len(lineText) - Len(quote)) :
                           isValidQuotePos(lineText, quote, i)},
                        LAMBDA all : IF all = {} THEN -1
                                     ELSE IF direction = "start" THEN minOf(all)
                                     ELSE maxOf(all)))

\* -------------------------------------------------------------- quote rules
\* /\$\{[^}]*\}/, /\{[^}]*\}/, /#\{[^}]*\}/ and /\$[a-zA-Z_]/ as predicates
hasMarker(content, opener) ==
  \E i \in 0..Len(content) :
    /\ startsWith(content, opener, i)
    /\ \E j \in (i + Len(opener))..(Len(content) - 1) : content[j + 1] = "}"

hasDollarIdent(content) ==
  \E i \in 1..(Len(content) - 1) : content[i] = "$" /\ isIdentStart(content[i + 1])

JsFamily == {"javascript", "typescript", "javascriptreact", "typescriptreact"}

\* QuoteRules.multilineQuotes / preferredMultilineQuote /
\* allowsMultilineInRegularQuotes of each language
getQuoteRules(languageId) ==
  CASE languageId \in JsFamily ->
         [multilineQuotes |-> <<<<BT>>>>, preferredMultilineQuote |-> <<BT>>,
          allowsMultilineInRegularQuotes |-> FALSE]
    [] languageId = "python" ->
         [multilineQuotes |-> <<Q3D, Q3S>>, preferredMultilineQuote |-> Q3D,
          allowsMultilineInRegularQuotes |-> FALSE]
    [] languageId \in {"csharp", "java", "kotlin"} ->
         [multilineQuotes |-> <<Q3D>>, preferredMultilineQuote |-> Q3D,
          allowsMultilineInRegularQuotes |-> FALSE]
    [] languageId = "go" ->
         [multilineQuotes |-> <<<<BT>>>>, preferredMultilineQuote |-> <<BT>>,
          allowsMultilineInRegularQuotes |-> FALSE]
    [] languageId = "ruby" ->
         [multilineQuotes |-> <<<<DQ>>, <<SQ>>>>, preferredMultilineQuote |-> <<DQ>>,
          allowsMultilineInRegularQuotes |-> TRUE]
    [] languageId = "php" ->
         [multilineQuotes |-> <<<<DQ>>>>, preferredMultilineQuote |-> <<DQ>>,
          allowsMultilineInRegularQuotes |-> TRUE]
    [] OTHER ->
         [multilineQuotes |-> <<>>, preferredMultilineQuote |-> <<DQ>>,
          allowsMultilineInRegularQuotes |-> TRUE]

\* QuoteRules.hasSpecialFeatures(content, quote) of each language
hasSpecialFeatures(languageId, content, quote) ==
  CASE languageId \in JsFamily -> quote = <<BT>> /\ hasMarker(content, <<"$", "{">>)
    [] languageId \in {"python", "csharp"} -> hasMarker(content, <<"{">>)
    [] languageId = "kotlin" -> hasMarker(content, <<"$", "{">>)
    [] languageId = "ruby" -> hasMarker(content, <<"#", "{">>)
    [] languageId = "php" -> hasDollarIdent(content)
    [] OTHER -> FALSE

\* /\b(val|var)\b/ on the text before the string
isWordChar(c) == isIdentStart(c) \/ c \in {"0", "1", "2"}

hasValOrVar(text) ==
  \E i \in 0..(Len(text) - 3) :
    /\ substring(text, i, i + 3) \in {<<"v", "a", "l">>, <<"v", "a", "r">>}
    /\ (i = 0 \/ ~isWordChar(text[i]))
    /\ (i + 3 = Len(text) \/ ~isWordChar(text[i + 4]))

resolveLanguageId(lines, languageId, stringInfo) ==
  IF languageId # "plaintext" THEN languageId
  ELSE IF hasValOrVar(substring(lines[stringInfo.start.line + 1], 0,
                                stringInfo.start.character))
  THEN "kotlin" ELSE languageId

\* heuristic: inside an open tag, right after an attribute assignment
isInJSXAttribute(lines, languageId, position) ==
  IF languageId \notin {"javascriptreact", "typescriptreact"} THEN FALSE
  ELSE With(substring(lines[position.line + 1], 0, position.character),
         LAMBDA textBeforeCursor :
           With(lastIndexOf(textBeforeCursor, "<"),
             LAMBDA lastOpenBracket :
               IF lastOpenBracket <= lastIndexOf(textBeforeCursor, ">") THEN FALSE
               ELSE With(trimEnd(substringFrom(textBeforeCursor, lastOpenBracket)),
                         LAMBDA tagText : tagText # <<>> /\ tagText[Len(tagText)] = "=")))

getMultilineQuote(languageId, originalQuote, isJSXAttr) ==
  IF isJSXAttr THEN originalQuote
  ELSE LET rules == getQuoteRules(languageId)
       IN IF Len(rules.multilineQuotes) = 0 \/ rules.allowsMultilineInRegularQuotes
          THEN originalQuote
          ELSE rules.preferredMultilineQuote

\* a restore that ignores the content's interpolation markers
shouldRestoreAlways(languageId, content, currentQuote, originalQuote) ==
  originalQuote # <<>> /\ originalQuote # currentQuote

\* originalQuote = <<>> models `undefined`
shouldRestoreOriginalQuote(languageId, content, currentQuote, originalQuote) ==
  IF originalQuote = <<>> \/ originalQuote = currentQuote THEN FALSE
  ELSE ~hasSpecialFeatures(languageId, content, currentQuote)

\* ---------------------------------------------------------- string locator
Pos(l, c) == [line |-> l, character |-> c]

\* `null` of the locator: a StringInfo with ok = FALSE
NoString ==
  [ok |-> FALSE, start |-> Pos(0, 0), end |-> Pos(0, 0), quote |-> <<>>,
   content |-> <<>>, isMultiline |-> FALSE, originalQuote |-> <<>>]

StringInfo(start, end, quote, content, isMultiline, originalQuote) ==
  [ok |-> TRUE, start |-> start, end |-> end, quote |-> quote,
   content |-> content, isMultiline |-> isMultiline, originalQuote |-> originalQuote]

RECURSIVE scanSingleLine(_, _, _, _)
scanSingleLine(lineText, i, cursorOffset, line) ==
  IF i >= Len(lineText) THEN NoString
  ELSE With(matchQuoteToken(lineText, i, QUOTE_TOKENS),
    LAMBDA token :
      IF token = <<>> THEN scanSingleLine(lineText, i + 1, cursorOffset, line)
      ELSE IF Len(token) = 1 /\ isEscaped(lineText, i)
      THEN scanSingleLine(lineText, i + 1, cursorOffset, line)
      ELSE With(findClosingQuoteInLine(lineText, i + Len(token), token),
        LAMBDA end :
          IF end = -1
          THEN scanSingleLine(lineText, i + Len(token), cursorOffset, line)
          ELSE IF cursorOffset > i /\ cursorOffset <= end + Len(token) - 1
          THEN StringInfo(Pos(line, i), Pos(line, end + Len(token)), token,
                          substring(lineText, i + Len(token), end), FALSE, <<>>)
          ELSE scanSingleLine(lineText, end + Len(token), cursorOffset, line)))

findSingleLineStringAtCursor(lines, position) ==
  scanSingleLine(lines[position.line + 1], 0, position.character, position.line)

\* is <<l1, c1>> before <<l2, c2>> in document order
PosLess(a, b) == a[1] < b[1] \/ (a[1] = b[1] /\ a[2] < b[2])

\* text between an opening token at (startLine, startChar) and a closing token
\* at (endLine, endChar), lines joined by "\n"
RECURSIVE extractLines(_, _, _, _, _, _)
extractLines(lines, lineNum, startLine, endLine, endChar, acc) ==
  IF lineNum > endLine THEN acc
  ELSE IF lineNum = endLine
  THEN acc \o substring(lines[lineNum + 1], 0, endChar)
  ELSE extractLines(lines, lineNum + 1, startLine, endLine, endChar,
                    acc \o lines[lineNum + 1] \o <<NL>>)

extractContent(lines, startLine, startChar, endLine, endChar, quoteLength) ==
  IF startLine = endLine
  THEN substring(lines[startLine + 1], startChar + quoteLength, endChar)
  ELSE IF startLine > endLine THEN <<>>
  ELSE extractLines(lines, startLine + 1, startLine, endLine, endChar,
                    substringFrom(lines[startLine + 1], startChar + quoteLength) \o <<NL>>)

\* the multi-line pass for one quote token
\* an unescaped `quote` starts at <<line, column>> p
quoteAt(lines, quote, p) ==
  /\ p[2] <= Len(lines[p[1] + 1]) - Len(quote)
  /\ startsWith(lines[p[1] + 1], quote, p[2])
  /\ ~(Len(quote) = 1 /\ isEscaped(lines[p[1] + 1], p[2]))

columnsOf(lines, fromLine, toLine) ==
  UNION {{<<l, i>> : i \in 0..Len(lines[l + 1])} : l \in fromLine..toLine}

firstPos(S) == CHOOSE p \in S : \A q \in S : q = p \/ PosLess(p, q)
lastPos(S) == CHOOSE p \in S : \A q \in S : q = p \/ PosLess(q, p)

\* the string between the opening token at op and the closing token at cl, if
\* the cursor is within it
spanAtCursor(lines, position, quote, op, cl) ==
  IF \/ position.line < op[1] \/ position.line > cl[1]
     \/ (position.line = op[1] /\ position.character <= op[2])
     \/ (position.line = cl[1] /\ position.character > cl[2] + Len(quote) - 1)
  THEN NoString
  ELSE With(extractContent(lines, op[1], op[2], cl[1], cl[2], Len(quote)),
         LAMBDA content :
           StringInfo(Pos(op[1], op[2]), Pos(cl[1], cl[2] + Len(quote)), quote, content,
                      op[1] # cl[1] \/ includes(content, NL), <<>>))

\* forward search for the closing token from the opening token at op
closeFrom(lines, position, quote, op) ==
  With({p \in columnsOf(lines, op[1], Len(lines) - 1) :
          /\ (p[1] = op[1] => p[2] >= op[2] + Len(quote))
          /\ quoteAt(lines, quote, p)},
       LAMBDA closers : IF closers = {} THEN NoString
                        ELSE spanAtCursor(lines, position, quote, op, firstPos(closers)))

\* the multi-line pass for one quote token: backward search for the opening
\* token from the cursor, then forward for the closing one
findMultilineWithQuote(lines, position, quote) ==
  With({p \in columnsOf(lines, 0, position.line) :
          /\ (p[1] = position.line => p[2] <= position.character - 1)
          /\ quoteAt(lines, quote, p)},
       LAMBDA openers : IF openers = {} THEN NoString
                        ELSE closeFrom(lines, position, quote, lastPos(openers)))

RECURSIVE findMultilineString(_, _, _)
findMultilineString(lines, position, quotes) ==
  IF quotes = <<>> THEN NoString
  ELSE With(findMultilineWithQuote(lines, position, Head(quotes)),
         LAMBDA r : IF r.ok THEN r
                    ELSE findMultilineString(lines, position, Tail(quotes)))

findStringAtCursor(lines, position) ==
  With(findSingleLineStringAtCursor(lines, position),
       LAMBDA singleLine : IF singleLine.ok THEN singleLine
                           ELSE findMultilineString(lines, position, QUOTE_TOKENS))

\* ------------------------------------------------------ split / merge
lineIndentOf(lineText) == substring(lineText, 0, Len(lineText) - Len(trimStart(lineText)))

multilineQuoteFor(stringInfo, lines, languageId) ==
  getMultilineQuote(resolveLanguageId(lines, languageId, stringInfo), stringInfo.quote,
                    isInJSXAttribute(lines, languageId, stringInfo.start))

RECURSIVE wordLines(_, _)
wordLines(words, indent) ==
  IF words = <<>> THEN <<>>
  ELSE indent \o Head(words) \o <<NL>> \o wordLines(Tail(words), indent)

\* the text that replaces a single-line literal
splitText(words, lineIndent, multilineQuote) ==
  multilineQuote \o <<NL>> \o wordLines(words, lineIndent \o <<SP, SP>>)
    \o lineIndent \o multilineQuote

splitString(stringInfo, lines, languageId) ==
  splitText(splitWs(trim(stringInfo.content)),
            lineIndentOf(lines[stringInfo.start.line + 1]),
            multilineQuoteFor(stringInfo, lines, languageId))

\* splitString's side effect on its argument: originalQuote is set when the
\* token is converted
splitOriginalQuote(stringInfo, lines, languageId) ==
  IF multilineQuoteFor(stringInfo, lines, languageId) # stringInfo.quote
  THEN stringInfo.quote ELSE stringInfo.originalQuote

\* a merge that joins the lines as they are
mergedContentUntrimmed(content) == join(splitNl(content), <<SP>>)

mergedContent(content) ==
  With(splitNl(content),
       LAMBDA pieces :
         join(SelectSeqNonEmpty([i \in 1..Len(pieces) |-> trim(pieces[i])]), <<SP>>))

\* the text that replaces a multi-line literal
mergeText(content, finalQuote) == finalQuote \o content \o finalQuote

mergeString(stringInfo, lines, languageId) ==
  With(mergedContent(stringInfo.content),
    LAMBDA content :
      mergeText(content,
        IF shouldRestoreOriginalQuote(resolveLanguageId(lines, languageId, stringInfo),
                                      content, stringInfo.quote, stringInfo.originalQuote)
        THEN stringInfo.originalQuote ELSE stringInfo.quote))

\* ------------------------------------------------------ cursor-word mapper
\* [start, end) ranges of the whitespace-delimited words of a line (0-based)
RECURSIVE wordRangesFrom(_, _)
wordRangesFrom(lineText, from) ==
  With(firstNonWs(lineText, from),
    LAMBDA st :
      IF st >= Len(lineText) THEN <<>>
      ELSE With(firstWs(lineText, st),
             LAMBDA en : <<[start |-> st, end |-> en]>> \o wordRangesFrom(lineText, en)))

getWordRanges(lineText) == wordRangesFrom(lineText, 0)

\* `null` of the mapper
NoWord == [ok |-> FALSE, wordIndex |-> 0, charOffset |-> 0]
WordAt(k, j) == [ok |-> TRUE, wordIndex |-> k, charOffset |-> j]

contentWords(stringInfo) == SelectSeqNonEmpty(splitWs(trim(stringInfo.content)))

\* sequential content.indexOf(word, currentPos) for every word
RECURSIVE wordPositionsFrom(_, _, _, _)
wordPositionsFrom(content, words, i, currentPos) ==
  IF i > Len(words) THEN <<>>
  ELSE With(indexOf(content, words[i], currentPos),
    LAMBDA wordIndex :
      IF wordIndex = -1 THEN wordPositionsFrom(content, words, i + 1, currentPos)
      ELSE <<[start |-> wordIndex, end |-> wordIndex + Len(words[i]), index |-> i - 1]>>
             \o wordPositionsFrom(content, words, i + 1, wordIndex + Len(words[i])))

\* inside / before / after / between rules on the word ranges of one line of a
\* multi-line literal; `base` is the word index of the line's first word.  The
\* four cases exclude each other, so their order does not matter.
firstIdx(S) == minOf(S)

\* ranges with the cursor inside / with the cursor in the gap after them
rangesAt(ranges, cursorOffset) ==
  {i \in 1..Len(ranges) : cursorOffset >= ranges[i].start /\ cursorOffset <= ranges[i].end}

gapsAt(ranges, cursorOffset) ==
  {i \in 1..(Len(ranges) - 1) :
     cursorOffset > ranges[i].end /\ cursorOffset < ranges[i + 1].start}

\* the cursor is in the gap after range i: the closer word wins, the one
\* before on a tie
leftIsCloser(ranges, cursorOffset, i) ==
  cursorOffset - ranges[i].end <= ranges[i + 1].start - cursorOffset

snapInside(ranges, cursorOffset, base, i) ==
  WordAt(base + i - 1, cursorOffset - ranges[i].start)

snapBetween(ranges, cursorOffset, base, i) ==
  IF leftIsCloser(ranges, cursorOffset, i)
  THEN WordAt(base + i - 1, ranges[i].end - ranges[i].start)
  ELSE WordAt(base + i, 0)

snapToWord(ranges, cursorOffset, base) ==
  IF rangesAt(ranges, cursorOffset) # {}
  THEN snapInside(ranges, cursorOffset, base, firstIdx(rangesAt(ranges, cursorOffset)))
  ELSE IF gapsAt(ranges, cursorOffset) # {}
  THEN snapBetween(ranges, cursorOffset, base, firstIdx(gapsAt(ranges, cursorOffset)))
  ELSE IF Len(ranges) > 0 /\ cursorOffset < ranges[1].start
  THEN WordAt(base, 0)
  ELSE IF Len(ranges) > 0
  THEN WordAt(base + Len(ranges) - 1,
              ranges[Len(ranges)].end - ranges[Len(ranges)].start)
  ELSE NoWord

RECURSIVE wordsBeforeLine(_, _)
wordsBeforeLine(contentLines, lineOffset) ==
  IF lineOffset = 0 THEN 0
  ELSE wordsBeforeLine(contentLines, lineOffset - 1)
         + Len(getWordRanges(IF lineOffset <= Len(contentLines)
                             THEN contentLines[lineOffset] ELSE <<>>))

\* single-line literal: the word positions are those of the trimmed content
singleLineWord(words, wps, cursorOffset) ==
  IF rangesAt(wps, cursorOffset) # {}
  THEN With(wps[firstIdx(rangesAt(wps, cursorOffset))],
            LAMBDA w : WordAt(w.index, cursorOffset - w.start))
  ELSE IF gapsAt(wps, cursorOffset) # {}
  THEN With(firstIdx(gapsAt(wps, cursorOffset)),
            LAMBDA i : IF leftIsCloser(wps, cursorOffset, i)
                       THEN WordAt(wps[i].index, Len(words[wps[i].index + 1]))
                       ELSE WordAt(wps[i + 1].index, 0))
  ELSE IF Len(wps) > 0 /\ cursorOffset < wps[1].start THEN WordAt(0, 0)
  ELSE IF Len(words) > 0 THEN WordAt(Len(words) - 1, Len(words[Len(words)]))
  ELSE NoWord

\* multi-line literal: the word ranges of the cursor's line
multiLineWord(stringInfo, cursorPosition, contentLines, lineOffset) ==
  IF lineOffset < 0 \/ lineOffset > stringInfo.end.line - stringInfo.start.line
  THEN NoWord
  ELSE With(getWordRanges(IF lineOffset + 1 <= Len(contentLines)
                          THEN contentLines[lineOffset + 1] ELSE <<>>),
    LAMBDA ranges :
      IF Len(ranges) = 0 THEN NoWord
      ELSE snapToWord(ranges,
                      cursorPosition.character
                        - (IF lineOffset = 0
                           THEN stringInfo.start.character + Len(stringInfo.quote)
                           ELSE 0),
                      wordsBeforeLine(contentLines, lineOffset)))

getCursorWordPosition(stringInfo, cursorPosition) ==
  IF ~stringInfo.isMultiline
  THEN With(contentWords(stringInfo),
         LAMBDA words :
           singleLineWord(words, wordPositionsFrom(trim(stringInfo.content), words, 1, 0),
                          cursorPosition.character
                            - (stringInfo.start.character + Len(stringInfo.quote))))
  ELSE multiLineWord(stringInfo, cursorPosition, splitNl(stringInfo.content),
                     cursorPosition.line - stringInfo.start.line)

\* walk the lines of the split text, skipping blank and quote-only lines
wordColumn(range, wordPosition) ==
  range.start + Min(wordPosition.charOffset, range.end - range.start)

RECURSIVE findWordLine(_, _, _, _, _, _)
findWordLine(newLines, i, quoteToken, wordCounter, wordPosition, stringInfo) ==
  IF i > Len(newLines) THEN stringInfo.start
  ELSE IF trim(newLines[i]) = <<>> \/ (quoteToken # <<>> /\ trim(newLines[i]) = quoteToken)
  THEN findWordLine(newLines, i + 1, quoteToken, wordCounter, wordPosition, stringInfo)
  ELSE With(getWordRanges(newLines[i]),
    LAMBDA ranges :
      IF Len(ranges) = 0
      THEN findWordLine(newLines, i + 1, quoteToken, wordCounter, wordPosition, stringInfo)
      ELSE IF wordPosition.wordIndex < wordCounter + Len(ranges)
      THEN Pos(stringInfo.start.line + i - 1,
               wordColumn(ranges[wordPosition.wordIndex - wordCounter + 1], wordPosition))
      ELSE findWordLine(newLines, i + 1, quoteToken, wordCounter + Len(ranges),
                        wordPosition, stringInfo))

RECURSIVE wordOffset(_, _)
wordOffset(words, n) ==
  IF n = 0 THEN 0 ELSE wordOffset(words, n - 1) + Len(words[n]) + 1

calculateNewCursorPosition(stringInfo, newText, wordPosition, wasMultiline) ==
  IF ~wordPosition.ok THEN stringInfo.start
  ELSE With(contentWords(stringInfo),
    LAMBDA words :
      IF wordPosition.wordIndex >= Len(words) THEN stringInfo.start
      ELSE IF ~wasMultiline
      THEN With(splitNl(newText),
             LAMBDA newLines : findWordLine(newLines, 1, trim(newLines[1]), 0,
                                            wordPosition, stringInfo))
      ELSE Pos(stringInfo.start.line,
               stringInfo.start.character + Len(stringInfo.quote)
                 + wordOffset(words, wordPosition.wordIndex)
                 + Min(wordPosition.charOffset, Len(words[wordPosition.wordIndex + 1]))))

\* ------------------------------------------------- tracked-string registry
TrackedString(stringInfo) ==
  [startLine |-> stringInfo.start.line,
   startChar |-> stringInfo.start.character,
   endLine |-> stringInfo.end.line,
   endChar |-> stringInfo.end.character - Len(stringInfo.quote),
   quote |-> stringInfo.quote,
   content |-> stringInfo.content,
   contentHash |-> contentHash(stringInfo.content),
   originalQuote |-> stringInfo.originalQuote]

sameBoundary(t, stringInfo) ==
  /\ t.startLine = stringInfo.start.line
  /\ t.endLine = stringInfo.end.line
  /\ t.startChar = stringInfo.start.character
  /\ t.endChar = stringInfo.end.character - Len(stringInfo.quote)

\* Map.get(uri) with [] for a missing key
entriesOf(registry, uri) == IF uri \in DOMAIN registry THEN registry[uri] ELSE <<>>

mapSet(registry, uri, value) ==
  [u \in (DOMAIN registry) \cup {uri} |-> IF u = uri THEN value ELSE registry[u]]

\* variant of mapDelete that keeps the document's entries
mapKeep(registry, uri) == registry

\* variant of mapDelete that drops every document's entries
mapClear(registry, uri) == << >>

mapDelete(registry, uri) == [u \in (DOMAIN registry) \ {uri} |-> registry[u]]

trackString(registry, uri, stringInfo) ==
  mapSet(registry, uri,
         Append(SelectSeq(entriesOf(registry, uri), LAMBDA t : ~sameBoundary(t, stringInfo)),
                TrackedString(stringInfo)))

untrackString(registry, uri, stringInfo) ==
  IF uri \notin DOMAIN registry THEN registry
  ELSE With(SelectSeq(registry[uri], LAMBDA t : ~sameBoundary(t, stringInfo)),
            LAMBDA filtered : IF Len(filtered) = 0 THEN mapDelete(registry, uri)
                              ELSE mapSet(registry, uri, filtered))

lineInRange(lines, n) == n >= 0 /\ n < Len(lines)

\* the live StringInfo of one entry, NoString when it fails validation
\* the entry's string between the re-resolved quote columns
liveBetween(lines, t, startQuotePos, endQuotePos) ==
  IF startQuotePos = -1 \/ endQuotePos = -1 THEN NoString
  ELSE With(extractContent(lines, t.startLine, startQuotePos, t.endLine, endQuotePos,
                           Len(t.quote)),
    LAMBDA content :
      IF (t.startLine # t.endLine \/ includes(content, NL))
         /\ contentHash(content) = t.contentHash
      THEN StringInfo(Pos(t.startLine, startQuotePos),
                      Pos(t.endLine, endQuotePos + Len(t.quote)),
                      t.quote, content, TRUE, t.originalQuote)
      ELSE NoString)

liveString(lines, t) ==
  IF t.startLine >= Len(lines) \/ t.endLine >= Len(lines) THEN NoString
  ELSE IF ~lineInRange(lines, t.startLine) \/ ~lineInRange(lines, t.endLine)
  THEN NoString   \* lineAt throws, caught
  ELSE liveBetween(lines, t,
         findQuotePositionInLine(lines[t.startLine + 1], t.quote, t.startChar, "start"),
         findQuotePositionInLine(lines[t.endLine + 1], t.quote, t.endChar, "end"))

findTrackedStringsInDocument(lines, registry, uri) ==
  SelectSeq([i \in 1..Len(entriesOf(registry, uri)) |->
               liveString(lines, entriesOf(registry, uri)[i])],
            LAMBDA x : x.ok)

\* variant of registryAfterRead that prunes the entries failing validation
registryPruned(lines, registry, uri) ==
  mapSet(registry, uri,
         SelectSeq(entriesOf(registry, uri), LAMBDA t : liveString(lines, t).ok))

\* findTrackedStringsInDocument only reads the registry: an entry that fails
\* validation is skipped (`continue`), never removed or rewritten
registryAfterRead(lines, registry, uri) == registry

\* stable sort by descending start line (Array.prototype.sort)
RECURSIVE insertDesc(_, _)
insertDesc(sorted, x) ==
  IF sorted = <<>> THEN <<x>>
  ELSE IF Head(sorted).start.line < x.start.line THEN <<x>> \o sorted
  ELSE <<Head(sorted)>> \o insertDesc(Tail(sorted), x)

RECURSIVE sortDesc(_)
sortDesc(strings) ==
  IF strings = <<>> THEN <<>>
  ELSE insertDesc(sortDesc(SubSeq(strings, 1, Len(strings) - 1)), strings[Len(strings)])

\* variant of TextEdit whose range starts at the beginning of the line
TextEditFromLineStart(stringInfo, newText) ==
  [start |-> Pos(stringInfo.start.line, 0), end |-> stringInfo.end, newText |-> newText]

TextEdit(stringInfo, newText) ==
  [start |-> stringInfo.start, end |-> stringInfo.end, newText |-> newText]

collapseTrackedStrings(lines, languageId, registry, uri) ==
  With(sortDesc(findTrackedStringsInDocument(lines, registry, uri)),
    LAMBDA strings :
      [i \in 1..Len(strings) |->
         TextEdit(strings[i], mergeString(strings[i], lines, languageId))])

\* ------------------------------------------------------------ host editing
\* the document after replacing [start, end) by text
applyChange(lines, start, end, text) ==
  SubSeq(lines, 1, start.line)
    \o splitNl(substring(lines[start.line + 1], 0, start.character) \o text
                 \o substringFrom(lines[end.line + 1], end.character))
    \o SubSeq(lines, end.line + 2, Len(lines))

Change(start, end, text) == [start |-> start, end |-> end, text |-> text]

countNl(text) == Cardinality({i \in 1..Len(text) : text[i] = NL})

\* --------------------------------------------------- document-change handler
lineDeltaOf(change) == countNl(change.text) - (change.end.line - change.start.line)

isSingleLineChange(change) ==
  change.start.line = change.end.line /\ ~includes(change.text, NL)

charDeltaOf(change) ==
  IF isSingleLineChange(change)
  THEN Len(change.text) - (change.end.character - change.start.character)
  ELSE 0

\* variant of isChangeAfterString that never takes a change to lie after the
\* string
isChangeNeverAfter(t, change, newLines) == FALSE

\* the change lies on the entry's end line, after its closing quote (looked up
\* in the changed document; a lineAt that throws leaves it FALSE)
isChangeAfterString(t, change, newLines) ==
  /\ change.start.line = t.endLine
  /\ change.end.line = t.endLine
  /\ lineInRange(newLines, t.endLine)
  /\ With(findQuotePositionInLine(newLines[t.endLine + 1], t.quote, t.endChar, "end"),
          LAMBDA endQuotePos :
            endQuotePos # -1 /\ change.start.character > endQuotePos + Len(t.quote) - 1)

shiftBy(t, startDelta, endDelta) ==
  [t EXCEPT !.startLine = @ + startDelta, !.endLine = @ + endDelta]

shiftLines(t, change, after) ==
  IF change.end.line < t.startLine
  THEN shiftBy(t, lineDeltaOf(change), lineDeltaOf(change))
  ELSE IF after THEN t
  ELSE IF change.start.line <= t.endLine /\ change.end.line >= t.startLine
  THEN IF change.start.line >= t.startLine
       THEN shiftBy(t, 0, lineDeltaOf(change))
       ELSE shiftBy(t, lineDeltaOf(change), lineDeltaOf(change))
  ELSE t

shiftStartChar(t, change) ==
  IF change.start.line = t.startLine /\ change.end.character <= t.startChar
  THEN [t EXCEPT !.startChar = @ + charDeltaOf(change),
                 !.endChar = IF t.startLine = t.endLine THEN @ + charDeltaOf(change) ELSE @]
  ELSE t

shiftEndChar(t, change) ==
  IF change.start.line = t.endLine /\ change.start.character <= t.endChar
  THEN [t EXCEPT !.endChar = @ + charDeltaOf(change)]
  ELSE t

\* one change applied to one entry (the body of the inner loop)
shiftChars(t1, change, after) ==
  IF isSingleLineChange(change) /\ ~after
  THEN shiftEndChar(shiftStartChar(t1, change), change)
  ELSE t1

shiftAfter(t, change, after) == shiftChars(shiftLines(t, change, after), change, after)

shiftTracked(t, change, newLines) ==
  shiftAfter(t, change, isChangeAfterString(t, change, newLines))

RECURSIVE shiftAll(_, _, _)
shiftAll(tracked, changes, newLines) ==
  IF changes = <<>> THEN tracked
  ELSE shiftAll([i \in 1..Len(tracked) |-> shiftTracked(tracked[i], Head(changes), newLines)],
                Tail(changes), newLines)

\* re-read one entry's quote columns, content and hash from the document
refreshBetween(t, newLines, startQuotePos, endQuotePos) ==
  IF startQuotePos = -1 \/ endQuotePos = -1 THEN t
  ELSE With(extractContent(newLines, t.startLine, startQuotePos, t.endLine, endQuotePos,
                           Len(t.quote)),
            LAMBDA content :
              [t EXCEPT !.startChar = startQuotePos, !.endChar = endQuotePos,
                        !.content = content, !.contentHash = contentHash(content)])

refreshTracked(t, newLines) ==
  IF t.startLine >= Len(newLines) \/ t.endLine >= Len(newLines) THEN t
  ELSE IF ~lineInRange(newLines, t.startLine) \/ ~lineInRange(newLines, t.endLine)
  THEN t   \* lineAt throws, caught
  ELSE refreshBetween(t, newLines,
         findQuotePositionInLine(newLines[t.startLine + 1], t.quote, t.startChar, "start"),
         findQuotePositionInLine(newLines[t.endLine + 1], t.quote, t.endChar, "end"))

\* the timers pending after the change handler ran for an event of document
\* uri: `setTimeout(() => updateDecorations(editor), 100)` is called for every
\* event of the active editor's document while auto-collapse is on; no timer
\* is ever cleared. Outside a burst the callback has run before the next
\* operation starts, and it is not counted
scheduled(pending, burst, autoCollapse, active, uri) ==
  IF burst /\ autoCollapse /\ active = uri THEN pending + 1 ELSE pending

\* the registry after the change handler ran for an event of document uri
onDidChangeTextDocument(registry, autoCollapse, active, uri, newLines, changes) ==
  IF ~autoCollapse THEN registry
  ELSE IF active # uri THEN registry
  ELSE IF Len(entriesOf(registry, uri)) = 0 THEN registry
  ELSE With(shiftAll(registry[uri], changes, newLines),
         LAMBDA shifted :
           mapSet(registry, uri,
                  [i \in 1..Len(shifted) |-> refreshTracked(shifted[i], newLines)]))

\* --------------------------------------------- the literals of a document
\* Ground truth the claims are stated against: where the string literals of a
\* document are, and which of them the toggle command has split.  The initial
\* literals are known by construction; every edit moves, resizes or destroys
\* them exactly.
\* quote: its token now; split: the toggle command has split it; orig: its
\* token before it was split
Literal(start, end, quote, split, orig) ==
  [start |-> start, end |-> end, quote |-> quote, split |-> split, orig |-> orig]

posLE(a, b) == a.line < b.line \/ (a.line = b.line /\ a.character <= b.character)

lastLineLen(text) == With(splitNl(text), LAMBDA pieces : Len(pieces[Len(pieces)]))

\* where a position at or after the end of the replaced range lands
mapPos(p, change) ==
  IF p.line = change.end.line
  THEN Pos(change.start.line + countNl(change.text),
           p.character - change.end.character
             + (IF countNl(change.text) = 0
                THEN change.start.character + Len(change.text)
                ELSE lastLineLen(change.text)))
  ELSE Pos(p.line + lineDeltaOf(change), p.character)

\* the cursor is inside the literal: after its first character, up to the
\* last character of its closing token
insideLiteral(g, p) ==
  /\ posLE(g.start, p) /\ p # g.start
  /\ posLE(p, g.end) /\ p # g.end

contentStartOf(g) == Pos(g.start.line, g.start.character + Len(g.quote))
closerStartOf(g) == Pos(g.end.line, g.end.character - Len(g.quote))

\* the literals after a change; a change that touches a quote token destroys
\* the literal
mapLiterals(lits, change) ==
  {Literal(mapPos(g.start, change), mapPos(g.end, change), g.quote, g.split, g.orig) :
      g \in {h \in lits : posLE(change.end, h.start)}}
  \cup {g \in lits : posLE(g.end, change.start)}
  \cup {Literal(g.start, mapPos(g.end, change), g.quote, g.split, g.orig) :
      g \in {h \in lits : /\ posLE(contentStartOf(h), change.start)
                          /\ posLE(change.end, closerStartOf(h))}}

\* end position of a text inserted at `start`
endOfText(start, text) ==
  IF countNl(text) = 0 THEN Pos(start.line, start.character + Len(text))
  ELSE Pos(start.line + countNl(text), lastLineLen(text))

\* the literals after the toggle command replaced stringInfo by a literal
\* delimited by newQuote
toggleLiterals(lits, stringInfo, change, newQuote) ==
  With({g \in lits : g.start = stringInfo.start /\ g.end = stringInfo.end},
    LAMBDA hit :
      mapLiterals(lits \ hit, change)
        \cup {Literal(stringInfo.start, endOfText(change.start, change.text), newQuote,
                      ~stringInfo.isMultiline,
                      IF stringInfo.isMultiline THEN newQuote ELSE g.quote) : g \in hit})

\* --------------------------------------------------------- applying edits
editsOverlap(edits) ==
  \E i, j \in 1..Len(edits) :
    /\ i # j
    /\ posLE(edits[i].start, edits[j].start)
    /\ ~posLE(edits[i].end, edits[j].start)

\* position order, last first
RECURSIVE insertEdit(_, _)
insertEdit(sorted, e) ==
  IF sorted = <<>> THEN <<e>>
  ELSE IF posLE(Head(sorted).start, e.start) THEN <<e>> \o sorted
  ELSE <<Head(sorted)>> \o insertEdit(Tail(sorted), e)

RECURSIVE bottomUp(_)
bottomUp(edits) ==
  IF edits = <<>> THEN <<>> ELSE insertEdit(bottomUp(Tail(edits)), Head(edits))

RECURSIVE applyAll(_, _)
applyAll(lines, edits) ==
  IF edits = <<>> THEN lines
  ELSE applyAll(applyChange(lines, Head(edits).start, Head(edits).end, Head(edits).newText),
                Tail(edits))

\* WorkspaceEdit semantics: all ranges refer to the document before the edit
applyEdits(lines, edits) == applyAll(lines, bottomUp(edits))

\* the literals after the edits (given last first) were applied: an edit that
\* replaces a literal leaves the literal its text spells
literalOf(e) ==
  With(matchQuoteToken(e.newText, 0, QUOTE_TOKENS),
       LAMBDA q : Literal(e.start, endOfText(e.start, e.newText), q, FALSE, q))

replaceLiteral(lits, e, hit) ==
  mapLiterals(lits \ hit, Change(e.start, e.end, e.newText))
    \cup {literalOf(e) : g \in hit}

RECURSIVE mapLiteralsAll(_, _)
mapLiteralsAll(lits, edits) ==
  IF edits = <<>> THEN lits
  ELSE mapLiteralsAll(
         replaceLiteral(lits, Head(edits),
                        {g \in lits : g.start = Head(edits).start /\ g.end = Head(edits).end}),
         Tail(edits))

\* ------------------------------------------------------------------ bounds
MaxToggles == 2
MaxEdits == 1

\* ------------------------------------------------------------ initial documents
Docs == {"d1", "d2"}

Lit(l, c1, c2) == Literal(Pos(l, c1), Pos(l, c2), <<DQ>>, FALSE, <<DQ>>)

\* x="a b";
DocOne == <<<<"x", "=", DQ, "a", SP, "b", DQ, ";">>>>
LitsOne == {Lit(0, 2, 7)}
\* two identical literals on two lines
DocTwin == <<<<DQ, "a", SP, "b", DQ>>, <<DQ, "a", SP, "b", DQ>>>>
LitsTwin == {Lit(0, 0, 5), Lit(1, 0, 5)}
\* two identical literals on one line
DocTwinLine == <<<<DQ, "a", SP, "b", DQ, SP, DQ, "a", SP, "b", DQ>>>>
LitsTwinLine == {Lit(0, 0, 5), Lit(0, 6, 11)}
\* two literals on one line
DocPair == <<<<DQ, "a", DQ, SP, DQ, "b", SP, "c", DQ>>>>
LitsPair == {Lit(0, 0, 3), Lit(0, 4, 9)}
\* a string-free line between two literals
DocGap == <<<<DQ, "a", DQ>>, <<"y">>, <<DQ, "b", SP, "c", DQ>>>>
LitsGap == {Lit(0, 0, 3), Lit(2, 0, 5)}
\* the second, small document
DocOther == <<<<DQ, "c", SP, "b", DQ>>>>
LitsOther == {Lit(0, 0, 5)}

\* burst: the operations of the scenario follow each other within the 100 ms
\* delay of the change handler's timer
Scenario(name, text, lits, lang) ==
  [name |-> name, text |-> text, lits |-> lits, lang |-> lang,
   open |-> IF name = "both" THEN Docs ELSE {"d1"},
   burst |-> name = "both"]

Scenarios ==
  {Scenario("one", DocOne, LitsOne, l) : l \in {"typescript", "plaintext"}}
  \cup {Scenario("twin", DocTwin, LitsTwin, l) : l \in {"typescript"}}
  \cup {Scenario("pair", DocPair, LitsPair, l) : l \in {"typescript", "plaintext"}}
  \cup {Scenario("gap", DocGap, LitsGap, l) : l \in {"typescript"}}
  \cup {Scenario("both", DocOther, LitsOther, l) : l \in {"typescript"}}

\* texts a user edit inserts
EditTexts == {<<"z">>, <<NL>>}
Marker == <<"$", "{", "a", "}">>

\* ------------------------------------------------------------------- state
VARIABLES
  docText,             \* [Docs -> lines]: TextDocument contents
  languageId,          \* [Docs -> languageId]
  openDocs,            \* documents that are open
  activeEditor,        \* document of window.activeTextEditor, "none" when absent
  selection,           \* [Docs -> position]: editor.selection.active, as the
                       \* command or an edit left it
  trackedStrings,      \* the registry: uri -> TrackedString[]
  autoCollapseOnSave,  \* the configuration flag
  literals,            \* [Docs -> set of Literal]: ground truth
  misfired,            \* the toggle command has replaced a span that is no
                       \* literal (from then on `literals` is a lower bound)
  last,                \* what the last operation did and returned
  scenario,            \* the initial document
  nToggles,
  nEdits,
  timers               \* number of setTimeout callbacks scheduled and not yet run

vars == <<docText, languageId, openDocs, activeEditor, selection, trackedStrings,
          autoCollapseOnSave, literals, misfired, last, scenario, nToggles, nEdits, timers>>

NoChange == Change(Pos(0, 0), Pos(0, 0), <<>>)

\* op: the operation; kind: what a toggle did; info: the string it located;
\* cursor / inLiteral: where it ran and whether that was inside a literal;
\* wasTracked: the located string had a registry entry; edits: what collapse
\* returned; change: the change applied to the document; after: the save or
\* collapse-all of the same document that came directly before a collapse-all
Outcome(op, d, kind, info, cursor, inLiteral, wasTracked, editSuccess, edits, change, after) ==
  [op |-> op, doc |-> d, kind |-> kind, info |-> info, cursor |-> cursor,
   inLiteral |-> inLiteral, wasTracked |-> wasTracked, editSuccess |-> editSuccess,
   edits |-> edits, change |-> change, after |-> after]

Plain(op, d) ==
  Outcome(op, d, "none", NoString, Pos(0, 0), FALSE, FALSE, FALSE, <<>>, NoChange, "other")

EmptyRegistry == [u \in {} |-> <<>>]

InitOf(S) ==
  /\ \E sc \in S :
       /\ docText = [d \in Docs |-> IF d = "d1" THEN sc.text ELSE DocOther]
       /\ literals = [d \in Docs |-> IF d = "d1" THEN sc.lits ELSE LitsOther]
       /\ languageId = [d \in Docs |-> sc.lang]
       /\ openDocs = sc.open
       /\ scenario = sc
  /\ activeEditor = "d1"
  /\ selection = [d \in Docs |-> Pos(0, 0)]
  /\ trackedStrings = EmptyRegistry
  /\ autoCollapseOnSave \in BOOLEAN
  /\ misfired = FALSE
  /\ last = Plain("init", "d1")
  /\ nToggles = 0
  /\ nEdits = 0
  /\ timers = 0

Init == InitOf(Scenarios)

AllPositions(lines) ==
  UNION {{Pos(l, c) : c \in 0..Len(lines[l + 1])} : l \in 0..(Len(lines) - 1)}

\* ------------------------------------------------------------ toggle command
\* originalQuote of the first entry with the located string's boundary
lookupOriginalQuote(tracked, stringInfo) ==
  With({i \in 1..Len(tracked) : sameBoundary(tracked[i], stringInfo)},
       LAMBDA hits : IF hits = {} THEN stringInfo.originalQuote
                     ELSE tracked[firstIdx(hits)].originalQuote)

\* what the command computes before the edit is issued
\* the command's plan for the located string: stringInfo0 carries the
\* originalQuote looked up in the registry, stringInfo the one splitString set
planFor(lines, lang, position, stringInfo0, stringInfo, newText) ==
  [ok |-> TRUE, stringInfo |-> stringInfo, newText |-> newText,
   newQuote |-> IF stringInfo0.isMultiline
                THEN substring(newText, 0,
                       (Len(newText) - Len(mergedContent(stringInfo0.content))) \div 2)
                ELSE multilineQuoteFor(stringInfo0, lines, lang),
   cursor |-> calculateNewCursorPosition(stringInfo, newText,
                getCursorWordPosition(stringInfo0, position), stringInfo0.isMultiline)]

planWith(lines, lang, position, stringInfo0) ==
  IF stringInfo0.isMultiline
  THEN planFor(lines, lang, position, stringInfo0, stringInfo0,
               mergeString(stringInfo0, lines, lang))
  ELSE planFor(lines, lang, position, stringInfo0,
               [stringInfo0 EXCEPT !.originalQuote = splitOriginalQuote(stringInfo0, lines, lang)],
               splitString(stringInfo0, lines, lang))

planLocated(lines, lang, tracked, position, located) ==
  IF ~located.ok
  THEN [ok |-> FALSE, stringInfo |-> NoString, newText |-> <<>>,
        newQuote |-> <<>>, cursor |-> position]
  ELSE planWith(lines, lang, position,
                IF located.isMultiline
                THEN [located EXCEPT !.originalQuote = lookupOriginalQuote(tracked, located)]
                ELSE located)

\* what the command computes before the edit is issued
togglePlan(lines, lang, tracked, position) ==
  planLocated(lines, lang, tracked, position, findStringAtCursor(lines, position))

\* track / untrack after a successful edit, on the registry the change event
\* left behind
trackNew(afterEvent, uri, stringInfo, newStringInfo) ==
  IF newStringInfo.ok /\ newStringInfo.isMultiline
  THEN trackString(afterEvent, uri,
         [newStringInfo EXCEPT !.originalQuote =
            IF stringInfo.originalQuote # <<>>
            THEN stringInfo.originalQuote ELSE stringInfo.quote])
  ELSE afterEvent

toggleTracking(afterEvent, uri, stringInfo, newLines) ==
  IF stringInfo.isMultiline THEN untrackString(afterEvent, uri, stringInfo)
  ELSE trackNew(afterEvent, uri, stringInfo,
                findStringAtCursor(newLines,
                                   Pos(stringInfo.start.line,
                                       stringInfo.start.character + Len(stringInfo.quote))))

\* the command run with the cursor at `position` of the active editor; the
\* host applies the edit (or rejects it), delivers the change event, and only
\* then the command continues with track / untrack and the new selection
\* `editor.selection = new vscode.Selection(newPosition, newPosition)`: the
\* editor keeps a selection inside its document
validatePosition(lines, position) ==
  Pos(Min(position.line, Len(lines) - 1),
      Min(position.character, Len(lines[Min(position.line, Len(lines) - 1) + 1])))

\* variant of registryAfterEdit that updates tracking whatever the host reports
registryAfterAnyEdit(editSuccess, registry, updated) == updated

\* `if (editSuccess)`: tracking is updated only when the host applied the edit
registryAfterEdit(editSuccess, registry, updated) ==
  IF editSuccess THEN updated ELSE registry

toggleSplit(position, editSuccess) ==
  \E plan \in {togglePlan(docText[activeEditor], languageId[activeEditor],
                          entriesOf(trackedStrings, activeEditor), position)} :
    IF ~plan.ok
    THEN /\ editSuccess
         /\ last' = Plain("toggle", activeEditor)
         /\ UNCHANGED <<docText, trackedStrings, selection, literals, misfired, timers>>
    ELSE \E change \in {Change(plan.stringInfo.start, plan.stringInfo.end, plan.newText)} :
         \E newLines \in {applyChange(docText[activeEditor], change.start, change.end,
                                      change.text)} :
           /\ docText' = IF editSuccess THEN [docText EXCEPT ![activeEditor] = newLines]
                         ELSE docText
           /\ trackedStrings' =
                registryAfterEdit(editSuccess, trackedStrings,
                  toggleTracking(
                    onDidChangeTextDocument(trackedStrings, autoCollapseOnSave,
                                            activeEditor, activeEditor, newLines,
                                            <<change>>),
                    activeEditor, plan.stringInfo, newLines))
           /\ literals' =
                IF editSuccess
                THEN [literals EXCEPT ![activeEditor] =
                        toggleLiterals(@, plan.stringInfo, change, plan.newQuote)]
                ELSE literals
           /\ misfired' = (misfired \/ (editSuccess /\ \A g \in literals[activeEditor] :
                                           g.start # plan.stringInfo.start
                                           \/ g.end # plan.stringInfo.end))
           /\ timers' = IF editSuccess
                        THEN scheduled(timers, scenario.burst, autoCollapseOnSave,
                                       activeEditor, activeEditor)
                        ELSE timers
           /\ selection' = [selection EXCEPT ![activeEditor] =
                             validatePosition(IF editSuccess THEN newLines
                                              ELSE docText[activeEditor], plan.cursor)]
           /\ last' = Outcome("toggle", activeEditor,
                              IF plan.stringInfo.isMultiline THEN "merge" ELSE "split",
                              plan.stringInfo, position,
                              \E g \in literals[activeEditor] : insideLiteral(g, position),
                              \E i \in 1..Len(entriesOf(trackedStrings, activeEditor)) :
                                 sameBoundary(entriesOf(trackedStrings, activeEditor)[i],
                                              plan.stringInfo),
                              editSuccess, <<>>,
                              IF editSuccess THEN change ELSE NoChange, "other")

\* the user places the cursor and runs the command
ToggleAt ==
  /\ activeEditor \in openDocs
  /\ nToggles < MaxToggles
  /\ \E position \in AllPositions(docText[activeEditor]) :
       toggleSplit(position, TRUE)
  /\ nToggles' = nToggles + 1
  /\ UNCHANGED <<languageId, openDocs, activeEditor, autoCollapseOnSave, scenario, nEdits>>

\* the user runs the command and the host rejects its edit
ToggleRejected ==
  /\ activeEditor \in openDocs
  /\ nToggles < MaxToggles
  /\ \E position \in AllPositions(docText[activeEditor]) :
       toggleSplit(position, FALSE)
  /\ nToggles' = nToggles + 1
  /\ UNCHANGED <<languageId, openDocs, activeEditor, autoCollapseOnSave, scenario, nEdits>>

\* the user runs the command again without moving the cursor
ToggleAgain ==
  /\ activeEditor \in openDocs
  /\ nToggles < MaxToggles
  /\ last.op = "toggle" /\ last.kind # "none"
  /\ toggleSplit(selection[activeEditor], TRUE)
  /\ nToggles' = nToggles + 1
  /\ UNCHANGED <<languageId, openDocs, activeEditor, autoCollapseOnSave, scenario, nEdits>>

\* --------------------------------------------------------------- user edits
\* a change made to document d by the user (or by anything but this
\* extension); the host delivers the change event
userChange(d, change) ==
  \E newLines \in {applyChange(docText[d], change.start, change.end, change.text)} :
    /\ docText' = [docText EXCEPT ![d] = newLines]
    /\ trackedStrings' = onDidChangeTextDocument(trackedStrings, autoCollapseOnSave,
                                                 activeEditor, d, newLines, <<change>>)
    /\ literals' = [literals EXCEPT ![d] = mapLiterals(@, change)]
    /\ selection' = [selection EXCEPT ![d] = endOfText(change.start, change.text)]
    /\ last' = Outcome("change", d, "none", NoString, Pos(0, 0), FALSE, FALSE, TRUE,
                       <<>>, change, "other")
    /\ nEdits' = nEdits + 1
    /\ timers' = scheduled(timers, scenario.burst, autoCollapseOnSave, activeEditor, d)
    /\ UNCHANGED <<languageId, openDocs, activeEditor, autoCollapseOnSave, scenario,
                   nToggles, misfired>>

\* what a user can delete: one character, a line break, whole lines
Deletions(lines) ==
  {Change(p, Pos(p.line, p.character + 1), <<>>) :
     p \in {q \in AllPositions(lines) : q.character < Len(lines[q.line + 1])}}
  \cup {Change(Pos(l, Len(lines[l + 1])), Pos(l + 1, 0), <<>>) : l \in 0..(Len(lines) - 2)}
  \cup {Change(Pos(l1, 0), Pos(l2, 0), <<>>) :
          l1 \in 0..(Len(lines) - 2), l2 \in 1..(Len(lines) - 1)}

\* the user types or deletes somewhere in an open document
UserEdit ==
  /\ nEdits < MaxEdits
  /\ \E d \in openDocs :
       \/ \E p \in AllPositions(docText[d]), t \in EditTexts : userChange(d, Change(p, p, t))
       \/ \E change \in {c \in Deletions(docText[d]) : c.start # c.end /\ posLE(c.start, c.end)} :
            userChange(d, change)

\* the user types an interpolation marker somewhere in an open document
InsertMarker ==
  /\ nEdits < MaxEdits
  /\ \E d \in openDocs :
     \E p \in AllPositions(docText[d]) : userChange(d, Change(p, p, Marker))

\* ------------------------------------------------------------ other handlers
\* `if (edits.length > 0) { ...; trackedStrings.delete(uri) }`: the registry the
\* will-save handler leaves when auto-collapse is on
registryAfterSave(registry, d, edits) ==
  IF Len(edits) > 0 THEN mapDelete(registry, d) ELSE registry

\* onWillSaveTextDocument: with auto-collapse on, the collapse edits are handed
\* to the host and the document's tracking is cleared; the host applies the
\* edits (overlapping edits are rejected) and delivers their change event,
\* which now finds no tracking.  A save that hands over no edits changes
\* nothing and is not recorded.
WillSave ==
  \E d \in openDocs :
  \E edits \in {IF autoCollapseOnSave
                THEN collapseTrackedStrings(docText[d], languageId[d], trackedStrings, d)
                ELSE <<>>} :
    IF Len(edits) = 0 THEN UNCHANGED vars
    ELSE /\ trackedStrings' = registryAfterSave(trackedStrings, d, edits)
         /\ docText' = IF editsOverlap(edits) THEN docText
                       ELSE [docText EXCEPT ![d] = applyEdits(@, edits)]
         /\ literals' = IF editsOverlap(edits) THEN literals
                        ELSE [literals EXCEPT ![d] = mapLiteralsAll(@, bottomUp(edits))]
         /\ last' = Outcome("save", d, "none", NoString, Pos(0, 0), FALSE, FALSE,
                            ~editsOverlap(edits), edits, NoChange, "other")
         /\ timers' = IF editsOverlap(edits) THEN timers
                      ELSE scheduled(timers, scenario.burst, autoCollapseOnSave, activeEditor, d)
         /\ UNCHANGED <<languageId, openDocs, activeEditor, selection, autoCollapseOnSave,
                        scenario, nToggles, nEdits, misfired>>

\* a direct call of collapseTrackedStrings (exported for the tests)
CollapseAll ==
  \E d \in openDocs :
    /\ last' = Outcome("collapseAll", d, "none", NoString, Pos(0, 0), FALSE, FALSE, FALSE,
                       collapseTrackedStrings(docText[d], languageId[d], trackedStrings, d),
                       NoChange,
                       IF last.doc = d /\ last.op \in {"save", "collapseAll"}
                       THEN last.op ELSE "other")
    /\ trackedStrings' = registryAfterRead(docText[d], trackedStrings, d)
    /\ UNCHANGED <<docText, languageId, openDocs, activeEditor, selection,
                   autoCollapseOnSave, literals, scenario, nToggles, nEdits, misfired,
                   timers>>

\* onDidCloseTextDocument
CloseDocument ==
  \E d \in openDocs :
    /\ trackedStrings' = mapDelete(trackedStrings, d)
    /\ openDocs' = openDocs \ {d}
    /\ activeEditor' = IF activeEditor # d THEN activeEditor
                       ELSE IF openDocs \ {d} = {} THEN "none"
                       ELSE CHOOSE e \in openDocs \ {d} : TRUE
    /\ last' = Plain("close", d)
    /\ UNCHANGED <<docText, languageId, selection, autoCollapseOnSave, literals, scenario,
                   nToggles, nEdits, misfired, timers>>

\* onDidChangeActiveTextEditor: only decorations are refreshed
ChangeActiveEditor ==
  \E d \in openDocs \ {activeEditor} :
    /\ activeEditor' = d
    /\ UNCHANGED <<docText, languageId, openDocs, selection, trackedStrings,
                   autoCollapseOnSave, literals, last, scenario, nToggles, nEdits, misfired,
                   timers>>

\* the user flips splitSpacedStrings.autoCollapseOnSave
SetAutoCollapse ==
  /\ autoCollapseOnSave' = ~autoCollapseOnSave
  /\ UNCHANGED <<docText, languageId, openDocs, activeEditor, selection, trackedStrings,
                 literals, last, scenario, nToggles, nEdits, misfired, timers>>

\* ---------------------------------------------------------- specifications
\* the command and the handlers, on documents nobody else edits
Next ==
  \/ ToggleAt
  \/ ToggleAgain
  \/ ToggleRejected
  \/ WillSave
  \/ CollapseAll
  \/ CloseDocument
  \/ ChangeActiveEditor
  \/ SetAutoCollapse

Spec == Init /\ [][Next]_vars

\* the same with a user editing the document
EditScenarios ==
  {Scenario("one", DocOne, LitsOne, "typescript"),
   Scenario("twin", DocTwin, LitsTwin, "typescript"),
   Scenario("twinline", DocTwinLine, LitsTwinLine, "typescript")}

InitEdit == InitOf(EditScenarios)

NextEdit ==
  \/ ToggleAt
  \/ ToggleAgain
  \/ UserEdit
  \/ WillSave
  \/ CollapseAll
  \/ SetAutoCollapse

SpecEdit == InitEdit /\ [][NextEdit]_vars

\* one string,  Q a  b Q  in every language, split, merged and saved, with
\* a user who types interpolation markers
DocRound(q) == <<<<q, "a", SP, SP, "b", q>>>>
LitsRound(q) == {Literal(Pos(0, 0), Pos(0, 6), <<q>>, FALSE, <<q>>)}

Languages ==
  {"typescript", "python", "go", "java", "kotlin", "csharp", "ruby", "php", "rust",
   "plaintext"}

\* a string of one word
DocWord(q) == <<<<q, "a", q>>>>
LitsWord(q) == {Literal(Pos(0, 0), Pos(0, 3), <<q>>, FALSE, <<q>>)}

RoundScenarios ==
  {Scenario("round", DocRound(q), LitsRound(q), l) : q \in {DQ, SQ}, l \in Languages}
  \cup {Scenario("word", DocWord(DQ), LitsWord(DQ), l) : l \in {"ruby", "python"}}

InitRound == InitOf(RoundScenarios)

NextRound ==
  \/ ToggleAt
  \/ ToggleAgain
  \/ InsertMarker
  \/ WillSave
  \/ SetAutoCollapse

SpecRound == InitRound /\ [][NextRound]_vars

\* a tag with one attribute whose value is a string, in JSX and TSX:
\* <a b="c d">  on one line
DocTagLine == <<<<"<", "a", SP, "b", "=", DQ, "c", SP, "d", DQ, ">">>>>
LitsTagLine == {Lit(0, 5, 10)}
\* the tag opened on the line above the attribute
DocTagAbove == <<<<"<", "a">>, <<SP, "b", "=", DQ, "c", SP, "d", DQ, ">">>>>
LitsTagAbove == {Lit(1, 3, 8)}
\* the value on the line after the  =
DocValueBelow == <<<<"<", "a", SP, "b", "=">>, <<SP, DQ, "c", SP, "d", DQ, ">">>>>
LitsValueBelow == {Lit(1, 1, 6)}

JsxLanguages == {"javascriptreact", "typescriptreact"}

JsxScenarios ==
  {Scenario("tagline", DocTagLine, LitsTagLine, l) : l \in JsxLanguages}
  \cup {Scenario("tagabove", DocTagAbove, LitsTagAbove, l) : l \in JsxLanguages}
  \cup {Scenario("valuebelow", DocValueBelow, LitsValueBelow, l) : l \in JsxLanguages}

InitJsx == InitOf(JsxScenarios)

NextJsx ==
  \/ ToggleAt
  \/ ToggleAgain
  \/ WillSave
  \/ SetAutoCollapse

SpecJsx == InitJsx /\ [][NextJsx]_vars

\* strings to split: indented lines, runs of spaces between the words and
\* around them, a string of one word, a string without words
DocIndented == <<<<SP, SP, DQ, "a", SP, SP, "b", DQ>>>>
LitsIndented == {Lit(0, 2, 8)}
DocTabbed == <<<<"\t", SQ, SP, "a", SP, "b", SP, SQ, ";">>>>
LitsTabbed == {Literal(Pos(0, 1), Pos(0, 8), <<SQ>>, FALSE, <<SQ>>)}
DocEmpty == <<<<SP, DQ, DQ>>>>
LitsEmpty == {Lit(0, 1, 3)}
\* "\"a\\" "b" : the first string holds an escaped quote and ends with an
\* escaped backslash
DocEscaped == <<<<DQ, BS, DQ, "a", BS, BS, DQ, SP, DQ, "b", DQ>>>>
LitsEscaped == {Lit(0, 0, 7), Lit(0, 8, 11)}
\* """a\""" on one line (a backslash before the closing token), and a string
\* in triple quotes over three lines
DocTriple == <<<<DQ, DQ, DQ, "a", BS, DQ, DQ, DQ>>>>
LitsTriple == {Literal(Pos(0, 0), Pos(0, 8), Q3D, FALSE, Q3D)}
DocTripleLines == <<Q3D, <<SP, "a">>, Q3D>>
LitsTripleLines == {Literal(Pos(0, 0), Pos(2, 3), Q3D, FALSE, Q3D)}

SplitScenarios ==
  UNION {{Scenario("indented", DocIndented, LitsIndented, l),
          Scenario("tabbed", DocTabbed, LitsTabbed, l),
          Scenario("word", DocWord(DQ), LitsWord(DQ), l),
          Scenario("empty", DocEmpty, LitsEmpty, l),
          Scenario("escaped", DocEscaped, LitsEscaped, l),
          Scenario("triple", DocTriple, LitsTriple, l),
          Scenario("triplelines", DocTripleLines, LitsTripleLines, l)} :
           l \in {"typescript", "python", "plaintext"}}

InitSplit == InitOf(SplitScenarios)

NextSplit ==
  \/ ToggleAt
  \/ ToggleAgain
  \/ SetAutoCollapse

SpecSplit == InitSplit /\ [][NextSplit]_vars

\* one callback scheduled by the change handler runs, 100 ms after its event:
\* updateDecorations(editor) only reads the registry and the document
TimerFires ==
  /\ timers > 0
  /\ timers' = timers - 1
  /\ UNCHANGED <<docText, languageId, openDocs, activeEditor, selection, trackedStrings,
                 autoCollapseOnSave, literals, misfired, last, scenario, nToggles, nEdits>>

\* two open documents, each with a string, and a user who edits either of
\* them, also the one that is not shown in the active editor
InitBoth == InitOf({Scenario("both", DocOther, LitsOther, "typescript")})

NextBoth ==
  \/ ToggleAt
  \/ UserEdit
  \/ ChangeActiveEditor
  \/ SetAutoCollapse
  \/ TimerFires

SpecBoth == InitBoth /\ [][NextBoth]_vars

\* ------------------------------------------------------------------ claims
\* languages whose multi-line literal uses the token of the single-line one
SameTokenLanguages == {"ruby", "php", "rust", "plaintext"}

\* the words of the initial document's string, one space between them
RoundMerged(q) ==
  IF scenario.text = DocWord(q) THEN DocWord(q) ELSE <<<<q, "a", SP, "b", q>>>>

\* the toggle command has just merged a string of a document no user edited
MergedUnedited == last.op = "toggle" /\ last.kind = "merge" /\ nEdits = 0

\* C1: in a language without a distinct multi-line token, merging the split
\* form of  Q a  b Q  (or of  Q a Q ) gives  Q a b Q  (or  Q a Q ): the same
\* token, one space between the words.
C1_RoundTrip ==
  \A q \in {DQ, SQ} :
    (/\ scenario.text \in {DocRound(q), DocWord(q)}
     /\ scenario.lang \in SameTokenLanguages
     /\ MergedUnedited)
    => docText[last.doc] = RoundMerged(q)

C1_Witness ==
  /\ scenario.text = DocRound(SQ)
  /\ scenario.lang = "ruby"
  /\ MergedUnedited
  /\ last.wasTracked
  /\ docText[last.doc] = RoundMerged(SQ)

\* languages whose split converts a 1-character token
ConvertingLanguages == {"typescript", "python", "go", "java", "kotlin", "csharp"}

\* the text of document d between two positions, lines joined by "\n"
textBetween(d, from, to) ==
  extractContent(docText[d], from.line, from.character, to.line, to.character, 0)

\* the current content of literal g of document d
contentOf(d, g) == textBetween(d, contentStartOf(g), closerStartOf(g))

hasInterpolation(text) == \E i \in 0..Len(text) : startsWith(text, <<"$", "{">>, i)

\* this step is the toggle command merging literal g of the active editor
MergesLiteral(g) ==
  /\ nToggles' = nToggles + 1
  /\ last'.kind = "merge" /\ last'.editSuccess
  /\ g \in literals[activeEditor]
  /\ g.split
  /\ last'.info.start = g.start /\ last'.info.end = g.end

\* C2: in a converting language, a literal that was split from a 1-character
\* token and holds no interpolation marker is merged into a single-line
\* literal delimited by that 1-character token.
C2_QuoteRestored ==
  [][\A g \in literals[activeEditor] :
       (/\ MergesLiteral(g)
        /\ languageId[activeEditor] \in ConvertingLanguages
        /\ Len(g.orig) = 1
        /\ ~hasInterpolation(contentOf(activeEditor, g)))
       => \E h \in literals'[activeEditor] :
            /\ h.start = g.start /\ h.end.line = h.start.line
            /\ ~h.split /\ h.quote = g.orig
            /\ startsWith(docText'[activeEditor][h.start.line + 1], g.orig,
                          h.start.character)]_vars

\* languages in which  ${a}  is an interpolation marker of the converted token
InterpolatingLanguages == {"typescript", "python", "kotlin", "csharp"}

\* literal g of document d was split with quote conversion and now holds an
\* interpolation marker
ConvertedWithMarker(d, g) ==
  /\ g.split /\ g.quote # g.orig
  /\ languageId[d] \in InterpolatingLanguages
  /\ hasInterpolation(contentOf(d, g))

\* this step is the will-save handler handing over collapse edits
SaveStep == last' # last /\ last'.op = "save"

\* C3: a literal split with quote conversion that holds an interpolation
\* marker keeps the converted token when it is merged, by the toggle command
\* and by the collapse on save.
C3_MarkerKeepsToken ==
  [][/\ \A g \in literals[activeEditor] :
          (MergesLiteral(g) /\ ConvertedWithMarker(activeEditor, g))
          => \E h \in literals'[activeEditor] :
               /\ h.start = g.start /\ h.end.line = h.start.line
               /\ ~h.split /\ h.quote = g.quote
               /\ hasInterpolation(textBetween(activeEditor, h.start, h.end)')
     /\ SaveStep =>
          \A g \in literals[last'.doc] : \A i \in 1..Len(last'.edits) :
            (/\ ConvertedWithMarker(last'.doc, g)
             /\ last'.edits[i].start = g.start /\ last'.edits[i].end = g.end)
            => /\ startsWith(last'.edits[i].newText, g.quote, 0)
               /\ ~includes(last'.edits[i].newText, NL)]_vars

\* the toggle command has merged a backtick literal holding  ${a}
C3_Witness ==
  /\ last.op = "toggle" /\ last.kind = "merge" /\ last.wasTracked
  /\ last.info.originalQuote = <<DQ>>
  /\ hasInterpolation(last.info.content)
  /\ startsWith(last.change.text, <<BT>>, 0)
  /\ scenario.lang = "typescript"

\* this step is the toggle command run with the cursor outside every literal
TogglesOutside == nToggles' = nToggles + 1 /\ ~last'.inLiteral

\* C4: run with the cursor outside every string literal, the toggle command
\* changes neither the document nor the registry.
C4_OutsideNoChange ==
  [][TogglesOutside => (docText' = docText /\ trackedStrings' = trackedStrings)]_vars

\* edit e replaces exactly one literal of document d that the toggle command
\* has split
CoversSplitLiteral(d, e) ==
  \E g \in literals[d] : g.split /\ g.start = e.start /\ g.end = e.end

\* C5: every edit collapse-all returns covers exactly one literal that was
\* split by the toggle command, from its opening to its closing token (in
\* runs where every toggle was made on a literal).
C5_EditsCoverSplitLiterals ==
  (last.op = "collapseAll" /\ ~misfired)
  => \A i \in 1..Len(last.edits) : CoversSplitLiteral(last.doc, last.edits[i])

\* the registry of document d holds an entry that starts where literal g starts
entryAt(registry, d, g) ==
  \E i \in 1..Len(entriesOf(registry, d)) :
    /\ entriesOf(registry, d)[i].startLine = g.start.line
    /\ entriesOf(registry, d)[i].startChar = g.start.character

\* C6: once the toggle command has merged a tracked split string, the
\* registry holds no entry for that string, with auto-collapse on or off.
C6_MergedUntracked ==
  [][(activeEditor \in openDocs) =>
       (\A g \in literals[activeEditor] :
          (MergesLiteral(g) /\ last'.wasTracked) =>
            ~entryAt(trackedStrings', activeEditor, g))]_vars

\* entry t records exactly the span of literal h
sameSpan(t, h) ==
  /\ t.startLine = h.start.line /\ t.startChar = h.start.character
  /\ t.endLine = h.end.line /\ t.endChar = h.end.character - Len(h.quote)

entriesFor(registry, d, h) ==
  {i \in 1..Len(entriesOf(registry, d)) : sameSpan(entriesOf(registry, d)[i], h)}

\* this step is a user edit that lies within the content of literal g
EditsInside(g) ==
  /\ nEdits' = nEdits + 1 /\ last'.op = "change"
  /\ posLE(contentStartOf(g), last'.change.start)
  /\ posLE(last'.change.end, closerStartOf(g))

coversIn(lits, e) == \E g \in lits : g.split /\ g.start = e.start /\ g.end = e.end

\* entry t2 still records what entry t recorded and is live in lines, where it
\* locates a split literal of lits with that content
keptLive(lines, lits, t, t2) ==
  /\ t2.content = t.content /\ t2.contentHash = t.contentHash
  /\ liveString(lines, t2).ok
  /\ liveString(lines, t2).content = t.content
  /\ coversIn(lits, liveString(lines, t2))

\* the edits replace every literal of lits that is split over several lines
bothCollapse(lits, edits) ==
  \A g \in lits :
    (g.split /\ g.end.line > g.start.line)
    => \E k \in 1..Len(edits) : edits[k].start = g.start /\ edits[k].end = g.end

\* g and h are two split literals, g tracked, and entry number i records h as
\* it stands in the document
TwinsSplit(g, h, i) ==
  /\ g # h /\ g.split /\ h.split /\ ~misfired
  /\ entriesFor(trackedStrings, activeEditor, g) # {}
  /\ entriesOf(trackedStrings, activeEditor)[i].content = contentOf(activeEditor, h)

\* after this step entry number i of the active document still records the
\* same content and fingerprint and is live, and collapse merges both literals
TwinKept(i) ==
  /\ \E j \in 1..Len(entriesOf(trackedStrings', activeEditor)) :
       keptLive(docText'[activeEditor], literals'[activeEditor],
                entriesOf(trackedStrings, activeEditor)[i],
                entriesOf(trackedStrings', activeEditor)[j])
  /\ bothCollapse(literals'[activeEditor],
                  collapseTrackedStrings(docText'[activeEditor], languageId[activeEditor],
                                         trackedStrings', activeEditor))

\* C7: two identical strings are both split and one is edited while the
\* change handler is active (auto-collapse enabled): the other's entry keeps
\* its content and fingerprint and is live, and a collapse then merges both
\* strings.
C7_TwinIndependent ==
  [][\A g \in literals[activeEditor], h \in literals[activeEditor] :
       \A i \in entriesFor(trackedStrings, activeEditor, h) :
         (TwinsSplit(g, h, i) /\ EditsInside(g) /\ autoCollapseOnSave) => TwinKept(i)]_vars

\* this step is a user insertion right after the closing token of literal g
InsertsAfter(g) ==
  /\ nEdits' = nEdits + 1 /\ last'.op = "change"
  /\ last'.change.start = g.end /\ last'.change.end = g.end
  /\ last'.change.text # <<>>

\* entry t2 has the lines, content and fingerprint of entry t and is live in
\* lines, where it locates literal g
entryKept(lines, g, t, t2) ==
  /\ t2.startLine = t.startLine /\ t2.endLine = t.endLine
  /\ t2.content = t.content /\ t2.contentHash = t.contentHash
  /\ liveString(lines, t2).ok
  /\ liveString(lines, t2).start = g.start /\ liveString(lines, t2).end = g.end

\* entry number i records split literal g as it stands in the document
TracksLiteral(g, i) ==
  /\ g.split /\ ~misfired
  /\ i \in entriesFor(trackedStrings, activeEditor, g)
  /\ entriesOf(trackedStrings, activeEditor)[i].content = contentOf(activeEditor, g)

\* C8: inserting text or a line break right after the closing quote of a
\* tracked string leaves the entry's start line, end line, content and
\* fingerprint unchanged, and the entry is still live.
C8_InsertAfterCloser ==
  [][\A g \in literals[activeEditor] :
       \A i \in 1..Len(entriesOf(trackedStrings, activeEditor)) :
         (TracksLiteral(g, i) /\ InsertsAfter(g))
         => entryKept(docText'[activeEditor], g,
                      entriesOf(trackedStrings, activeEditor)[i],
                      entriesOf(trackedStrings', activeEditor)[i])]_vars

C8_Witness ==
  /\ last.op = "change" /\ last.change.text = <<NL>> /\ autoCollapseOnSave /\ ~misfired
  /\ \E g \in literals[last.doc] :
       /\ g.split /\ last.change.start = g.end /\ last.change.end = g.end
       /\ entriesFor(trackedStrings, last.doc, g) # {}
       /\ \A i \in entriesFor(trackedStrings, last.doc, g) :
            liveString(docText[last.doc], entriesOf(trackedStrings, last.doc)[i]).ok

\* the one toggle so far has split the second of the two literals of the pair
\* document
OnlySecondSplit(d) ==
  /\ scenario.name = "pair" /\ ~misfired /\ nToggles = 1
  /\ \E g \in literals[d], h \in literals[d] :
       /\ g.start = Pos(0, 0) /\ g.end = Pos(0, 3) /\ ~g.split
       /\ h.start = Pos(0, 4) /\ h.split

\* C9: a line holds two literals and only the second has been split:
\* collapse-all returns exactly one edit, it replaces the second literal, and
\* applying it leaves the text of the first literal as it was.
C9_OnlySecondCollapsed ==
  (last.op = "collapseAll" /\ OnlySecondSplit(last.doc))
  => /\ Len(last.edits) = 1
     /\ CoversSplitLiteral(last.doc, last.edits[1])
     /\ last.edits[1].start = Pos(0, 4)
     /\ substring(applyEdits(docText[last.doc], last.edits)[1], 0, 3)
          = substring(scenario.text[1], 0, 3)

C9_Witness ==
  /\ last.op = "collapseAll" /\ OnlySecondSplit(last.doc)
  /\ Len(last.edits) = 1
  /\ applyEdits(docText[last.doc], last.edits) = scenario.text

\* this step is a collapse-all that directly follows a collapse-all of the
\* same document
CollapsesAgain ==
  last.op = "collapseAll" /\ last'.op = "collapseAll" /\ last'.after = "collapseAll"

\* C10: collapse-all called twice in a row on a document, with no edit in
\* between, returns an empty edit list the second time.
C10_SecondCollapseEmpty ==
  [][CollapsesAgain => last'.edits = <<>>]_vars

\* C10 as the code has it: the second of two collapse-all calls in a row
\* returns the edits of the first, and a collapse-all that follows the save
\* handler's collapse of the document returns no edit.
C10_SecondCollapseSame ==
  [][/\ CollapsesAgain => last'.edits = last.edits
     /\ (last'.op = "collapseAll" /\ last'.after = "save") => last'.edits = <<>>]_vars

C10_Witness ==
  last.op = "collapseAll" /\ last.after = "collapseAll" /\ last.edits # <<>>

\* this step is a run of the toggle command whose edit the host rejected
ToggleIsRejected ==
  nToggles' = nToggles + 1 /\ last'.op = "toggle" /\ last'.kind # "none"
  /\ ~last'.editSuccess

\* C11: when the host rejects the edit of the toggle command, the registry is
\* what it was before the command (and so is the document).
C11_RejectedKeepsRegistry ==
  [][ToggleIsRejected => (trackedStrings' = trackedStrings /\ docText' = docText)]_vars

C11_Witness ==
  /\ last.op = "toggle" /\ last.kind = "merge" /\ ~last.editSuccess /\ last.wasTracked
  /\ \E i \in 1..Len(entriesOf(trackedStrings, last.doc)) :
       sameBoundary(entriesOf(trackedStrings, last.doc)[i], last.info)

\* a save whose collapse edits the host did not apply
SaveIsRejected == last' # last /\ last'.op = "save" /\ ~last'.editSuccess

\* C12: when the host does not apply the collapse edits handed over on save,
\* the entries tracked for that document are neither removed nor modified.
C12_RejectedSaveKeepsEntries ==
  [][SaveIsRejected => (entriesOf(trackedStrings', last'.doc)
                          = entriesOf(trackedStrings, last'.doc))]_vars

\* the registry a save of document d leaves in the current state
savedRegistry(d) ==
  registryAfterSave(trackedStrings, d,
    collapseTrackedStrings(docText[d], languageId[d], trackedStrings, d))

\* C13: with auto-collapse enabled, a save of a document leaves the registry
\* without entries for that document, whether or not any entry was still live.
C13_SaveClearsEntries ==
  \A d \in openDocs :
    autoCollapseOnSave => entriesOf(savedRegistry(d), d) = <<>>

\* C14: closing a document removes the entries of that document and leaves the
\* entries of every other document as they were.
C14_CloseRemovesOwnEntries ==
  [][\A d \in Docs :
       (d \in openDocs /\ openDocs' = openDocs \ {d})
         => (/\ d \notin DOMAIN trackedStrings'
             /\ \A e \in Docs \ {d} :
                  entriesOf(trackedStrings', e) = entriesOf(trackedStrings, e))]_vars
C14_Witness ==
  /\ last.op = "close"
  /\ \E g \in literals[last.doc] : g.split
  /\ entriesOf(trackedStrings, last.doc) = <<>>
  /\ \E e \in openDocs : entriesOf(trackedStrings, e) # <<>>

\* offset off of a text lies on a character of a word
onWord(content, off) == off \in 0..(Len(content) - 1) /\ ~isWhitespace(content[off + 1])

\* offsets at which a word of the text starts
wordStarts(content) ==
  {i \in 0..(Len(content) - 1) :
     ~isWhitespace(content[i + 1]) /\ (i = 0 \/ isWhitespace(content[i]))}

\* <<k, j>>: offset off is character j of word k of the text
wordAndChar(content, off) ==
  With(CHOOSE st \in wordStarts(content) :
         st <= off /\ \A i \in st..off : ~isWhitespace(content[i + 1]),
       LAMBDA st : <<Cardinality({i \in wordStarts(content) : i < st}), off - st>>)

\* length of the token the merge has put around the merged words
mergedQuoteLen(outcome) ==
  (Len(outcome.change.text) - Len(mergedContent(outcome.info.content))) \div 2

\* the command split a string with the cursor on a word and now merges it
\* from the position the split left the cursor at
SplitThenMerge ==
  /\ last.op = "toggle" /\ last.kind = "split" /\ last.editSuccess
  /\ onWord(last.info.content,
            last.cursor.character - last.info.start.character - Len(last.info.quote))
  /\ nToggles' = nToggles + 1
  /\ last'.kind = "merge" /\ last'.editSuccess
  /\ last'.cursor = selection[activeEditor]

\* the cursor is on character j of word k of the string the merge wrote, for
\* the <<k, j>> it had in the string before the split
CursorOnSameChar(before, after, cursor) ==
  /\ cursor.line = after.change.start.line
  /\ onWord(mergedContent(after.info.content),
            cursor.character - after.change.start.character - mergedQuoteLen(after))
  /\ wordAndChar(mergedContent(after.info.content),
                 cursor.character - after.change.start.character - mergedQuoteLen(after))
       = wordAndChar(before.info.content,
                     before.cursor.character - before.info.start.character
                       - Len(before.info.quote))

\* C15: with the cursor on character j of word k of a single-line string,
\* split followed at once by merge leaves the cursor on character j of word k
\* of the merged string, in every language.
C15_CursorRoundTrip ==
  [][SplitThenMerge => CursorOnSameChar(last, last', selection'[activeEditor])]_vars

\* the command has just split the attribute value of the tag
SplitAttributeValue ==
  /\ last.op = "toggle" /\ last.kind = "split" /\ last.editSuccess
  /\ last.doc = "d1" /\ last.inLiteral /\ ~misfired

\* C16: in JSX and TSX, splitting a string that is the value of a tag's
\* attribute keeps the string's quote, also when the tag opens on an earlier
\* line and when the value is on the line after the  = .
C16_AttributeKeepsQuote ==
  SplitAttributeValue
    => substring(last.change.text, 0, Len(last.info.quote)) = last.info.quote

\* the whitespace-delimited words of a text, from offset i on
RECURSIVE wordsFrom(_, _)
wordsFrom(content, i) ==
  IF i >= Len(content) THEN <<>>
  ELSE IF isWhitespace(content[i + 1]) THEN wordsFrom(content, i + 1)
  ELSE With(CHOOSE e \in (i + 1)..Len(content) :
              /\ e = Len(content) \/ isWhitespace(content[e + 1])
              /\ \A n \in (i + 1)..e : ~isWhitespace(content[n]),
            LAMBDA e : <<substring(content, i, e)>> \o wordsFrom(content, e))

\* the leading whitespace of a line
baseIndent(lineText) ==
  substring(lineText, 0,
            Cardinality({n \in 1..Len(lineText) :
                           \A i \in 1..n : isWhitespace(lineText[i])}))

\* token line, one line  indent + two spaces + word  per word, closing line
\* indent + token
SplitShape(textLines, words, indent) ==
  /\ Len(textLines) = Len(words) + 2
  /\ \E i \in 1..Len(QUOTE_TOKENS) :
       /\ textLines[1] = QUOTE_TOKENS[i]
       /\ textLines[Len(textLines)] = indent \o QUOTE_TOKENS[i]
  /\ \A n \in 1..Len(words) : textLines[n + 1] = indent \o <<SP, SP>> \o words[n]

\* the first command on the document has split a string
FirstSplit ==
  last.op = "toggle" /\ last.kind = "split" /\ nToggles = 1 /\ last.editSuccess

\* C17: the text split produces is the opening token, one line per
\* whitespace-delimited word of the content (base indent of the string's line,
\* two spaces, the word), and a closing line of base indent and token.
C17_SplitShape ==
  FirstSplit
    => SplitShape(splitNl(last.change.text), wordsFrom(last.info.content, 0),
                  baseIndent(scenario.text[last.info.start.line + 1]))

\* two entries address the same boundary
sameEntryBoundary(t, u) ==
  /\ t.startLine = u.startLine /\ t.startChar = u.startChar
  /\ t.endLine = u.endLine /\ t.endChar = u.endChar

\* C18: no document's entry list holds two entries with the same start line,
\* start column, end line and end column.
C18_NoDuplicateBoundary ==
  \A d \in DOMAIN trackedStrings :
    \A i, j \in 1..Len(trackedStrings[d]) :
      sameEntryBoundary(trackedStrings[d][i], trackedStrings[d][j]) => i = j

\* a change event for a document with tracked entries, auto-collapse being on
ChangeOfTracked ==
  /\ nEdits' = nEdits + 1 /\ last'.op = "change"
  /\ autoCollapseOnSave
  /\ entriesOf(trackedStrings, last'.doc) # <<>>

\* the entries of document d recomputed against the text after the change
recomputed(d, newLines, change) ==
  entriesOf(onDidChangeTextDocument(trackedStrings, TRUE, d, d, newLines, <<change>>), d)

\* C19: with auto-collapse on, after a change event for a document with
\* tracked entries each entry is recomputed against the changed text, whether
\* or not the document is the one of the active editor.
C19_ChangeRecomputes ==
  [][ChangeOfTracked
       => (entriesOf(trackedStrings', last'.doc)
             = recomputed(last'.doc, docText'[last'.doc], last'.change))]_vars

\* the replaced range of the change ends before the opening quote of entry t
EndsBeforeStart(change, t) ==
  \/ change.end.line < t.startLine
  \/ change.end.line = t.startLine /\ change.end.character <= t.startChar

\* a change event for the active editor's document, auto-collapse being on
ChangeOfActive ==
  /\ nEdits' = nEdits + 1 /\ last'.op = "change" /\ last'.doc = activeEditor
  /\ autoCollapseOnSave

\* entry t2 is entry t with both lines moved by delta, and is live in lines
shiftedLive(lines, t, t2, delta) ==
  /\ t2.startLine = t.startLine + delta
  /\ t2.endLine = t.endLine + delta
  /\ liveString(lines, t2).ok

\* C20: a change whose replaced range ends before the start of a tracked
\* entry (on an earlier line, or on its start line before the opening quote)
\* shifts the entry's start line and end line by the change's line delta, and
\* the entry stays live.
C20_ChangeBeforeShiftsBoth ==
  [][ChangeOfActive
       => \A g \in literals[activeEditor] :
          \A i \in 1..Len(entriesOf(trackedStrings, activeEditor)) :
            (TracksLiteral(g, i)
             /\ EndsBeforeStart(last'.change, entriesOf(trackedStrings, activeEditor)[i]))
            => shiftedLive(docText'[activeEditor],
                           entriesOf(trackedStrings, activeEditor)[i],
                           entriesOf(trackedStrings', activeEditor)[i],
                           lineDeltaOf(last'.change))]_vars

\* a direct call of collapse-all on document d
CollapseAllOf(d) ==
  /\ last'.op = "collapseAll" /\ last'.doc = d
  /\ UNCHANGED <<docText, openDocs, activeEditor, autoCollapseOnSave, nToggles, nEdits>>

\* the live strings of document d as the registry and the text stand
findLive(d) == findTrackedStringsInDocument(docText[d], trackedStrings, d)

\* C22: collapse-all and the search for live strings it makes leave every
\* entry of the registry as it was, also the entries that fail validation,
\* and a second search for live strings returns what the first returned.
C22_ReadsKeepRegistry ==
  [][\A d \in Docs :
       CollapseAllOf(d)
         => (/\ trackedStrings' = trackedStrings
             /\ findTrackedStringsInDocument(docText'[d], trackedStrings', d)
                  = findLive(d))]_vars
C22_Witness ==
  /\ last.op = "collapseAll" /\ last.after = "collapseAll"
  /\ \E i \in 1..Len(entriesOf(trackedStrings, last.doc)) :
       ~liveString(docText[last.doc], entriesOf(trackedStrings, last.doc)[i]).ok

\* C23: every tracked entry has 0 <= startLine <= endLine and non-negative
\* start and end columns.
C23_EntriesWellFormed ==
  \A d \in DOMAIN trackedStrings :
    \A i \in 1..Len(trackedStrings[d]) :
      /\ 0 <= trackedStrings[d][i].startLine
      /\ trackedStrings[d][i].startLine <= trackedStrings[d][i].endLine
      /\ trackedStrings[d][i].startChar >= 0
      /\ trackedStrings[d][i].endChar >= 0

\* the ranges of two edits have a position in common
rangesOverlap(e, f) ==
  /\ posLE(e.start, f.end) /\ posLE(f.start, e.end)
  /\ e.start # f.end /\ f.start # e.end

\* C24: the ranges of the edits one collapse-all call returns do not overlap
\* one another.
C24_EditsDisjoint ==
  (last.op = "collapseAll")
    => \A i, j \in 1..Len(last.edits) :
         i # j => ~rangesOverlap(last.edits[i], last.edits[j])

\* C25: when the host rejects the edit of the toggle command, the selection
\* of the editor is where it was when the command was run.
C25_RejectedKeepsSelection ==
  [][ToggleIsRejected => (selection'[activeEditor] = last'.cursor)]_vars

\* the toggle command has located a string in the text as it stood
ToggleLocates == nToggles' = nToggles + 1 /\ last'.op = "toggle" /\ last'.kind # "none"

\* the token is in the text at the span's start and right before its end
SpanQuoted(lines, info) ==
  /\ startsWith(lines[info.start.line + 1], info.quote, info.start.character)
  /\ info.end.character >= Len(info.quote)
  /\ startsWith(lines[info.end.line + 1], info.quote,
                info.end.character - Len(info.quote))

containsToken(content, quote) == indexOf(content, quote, 0) # -1

\* the character at offset i follows an odd run of backslashes
afterOddBackslashes(content, i) ==
  Cardinality({k \in 1..i : \A m \in (i - k + 1)..i : content[m] = BS}) % 2 = 1

\* the content holds the token where it could close the string
containsDelimiter(content, quote) ==
  \E i \in 0..(Len(content) - Len(quote)) :
    /\ startsWith(content, quote, i)
    /\ ~(Len(quote) = 1 /\ afterOddBackslashes(content, i))

\* C26 as stated: a located span has its token at its start and right before
\* its end, and its content holds no occurrence of the token.
C26_ContentWithoutToken ==
  [][ToggleLocates
       => (/\ SpanQuoted(docText[activeEditor], last'.info)
           /\ ~containsToken(last'.info.content, last'.info.quote))]_vars

\* C26 amended: a located span has its token at its start and right before
\* its end, and its content holds no occurrence of the token other than
\* backslash-escaped occurrences of a 1-character token.
C26_ContentWithoutDelimiter ==
  [][ToggleLocates
       => (/\ SpanQuoted(docText[activeEditor], last'.info)
           /\ ~containsDelimiter(last'.info.content, last'.info.quote))]_vars
C26_Witness ==
  /\ last.op = "toggle" /\ last.kind = "split" /\ last.inLiteral
  /\ containsToken(last.info.content, last.info.quote)

\* C27: splitting a string whose content is empty or only whitespace gives
\* the opening token line directly followed by the closing token line.
C27_NoWordLineForBlank ==
  (FirstSplit /\ trim(last.info.content) = <<>>)
    => Len(splitNl(last.change.text)) = 2

\* offset of the cursor the command was run at in the located string's content
cursorOffsetIn(outcome) ==
  outcome.cursor.character - outcome.info.start.character - Len(outcome.info.quote)

\* the word position is word k, character j, for <<k, j>> = kj
isWordAt(wordPosition, kj) ==
  wordPosition.ok /\ wordPosition.wordIndex = kj[1] /\ wordPosition.charOffset = kj[2]

\* C28: for a single-line string and a cursor on character j of its k-th
\* word, the cursor is mapped to word k, character j, also when a word occurs
\* several times and when the content starts with whitespace.
C28_CursorMapsToWord ==
  (/\ last.op = "toggle" /\ last.kind = "split"
   /\ onWord(last.info.content, cursorOffsetIn(last)))
    => isWordAt(getCursorWordPosition(last.info, last.cursor),
                wordAndChar(last.info.content, cursorOffsetIn(last)))

\* the first command was run with the cursor inside literal g of the
\* document as opened
FirstToggleInside(g) ==
  /\ nToggles = 1 /\ last.op = "toggle"
  /\ g \in scenario.lits /\ insideLiteral(g, last.cursor)

\* C29: with the cursor inside a literal delimited by a 3-character token,
\* on one line or over several, the located span has that 3-character token
\* as its quote.
C29_TripleTokenLocated ==
  \A g \in scenario.lits :
    (FirstToggleInside(g) /\ Len(g.quote) = 3)
      => (last.kind # "none" /\ last.info.quote = g.quote)

\* neither delimiter of the span is a backslash-escaped character
DelimitersUnescaped(lines, info) ==
  /\ ~afterOddBackslashes(lines[info.start.line + 1], info.start.character)
  /\ ~afterOddBackslashes(lines[info.end.line + 1], info.end.character - 1)

\* C30: the delimiters of a span located with a 1-character token are not
\* preceded by an odd number of backslashes, and the span is closed by the
\* first such token after its opening one; a span located with a longer token
\* is closed by the first occurrence of the token, backslashes or not.
C30_EscapedNeverDelimits ==
  [][ToggleLocates
       => IF Len(last'.info.quote) = 1
          THEN /\ DelimitersUnescaped(docText[activeEditor], last'.info)
               /\ ~containsDelimiter(last'.info.content, last'.info.quote)
          ELSE ~containsToken(last'.info.content, last'.info.quote)]_vars
C30_Witness ==
  /\ last.op = "toggle" /\ last.kind = "split" /\ last.inLiteral
  /\ last.info.quote = <<DQ>>
  /\ last.info.content = <<BS, DQ, "a", BS, BS>>
\* C21: a burst of document-change events that all arrive within one debounce
\* delay causes exactly one deferred decoration recomputation: at no moment is
\* more than one deferred recomputation pending
C21_OneDeferredRefresh == timers <= 1

====
